---- MODULE Spec2Model ----
(***************************************************************************)
(* Model of the vehicle recommendation scorer of the storefront server,    *)
(* server/routes/recommendRoutes.js: the catalog TESLA_SPECS loaded at      *)
(* module scope and calculateAdvancedRecommendations(preferences), which   *)
(* scores every catalog row with seven rules, clamps, sorts and cuts.       *)
(*                                                                         *)
(* Numbers.  Catalog cells are CSV strings that the code parses; a cell is  *)
(* modelled by the number parseInt / parseFloat gives for it, NaN for a     *)
(* cell that is not numeric.  The 0-60 time is kept in tenths of a second.  *)
(* The products maxBudget * 0.8 and maxBudget * 1.15 are IEEE-754 double    *)
(* products in the code; they are modelled exactly (see LeqTimes115).       *)
(*                                                                         *)
(* Objects.  A JavaScript object is a record whose DOMAIN is the set of its *)
(* keys: a key that is absent reads as undefined (see Has).                 *)
(*                                                                         *)
(* Six specifications: Spec (one call of the scorer on inputs drawn in      *)
(* Init), SpecCalls (a sequence of calls with changing preferences),        *)
(* SpecRoute (one POST /api/recommend request through the route handler),   *)
(* SpecStore (the functions of database.js on a file that may fail to read  *)
(* or write), SpecSite (the auth routes served to two clients, with the     *)
(* awaits of signup and login as separate steps) and SpecOrders (the orders *)
(* and history routes served to two signed-in clients).                     *)
(***************************************************************************)
EXTENDS Integers, Sequences, FiniteSets, TLC

VARIABLES
    TESLA_SPECS,      \* the catalog rows, in file order (recommendRoutes.js:9)
    preferences,      \* the argument the function is called with
    called,           \* whether the call has been made
    threw,            \* whether the latest call ended in a TypeError
    running,          \* per row: the local `score` after each of the 7 rules
    reasonsAll,       \* per row: the local `reasons` array before slice(0, 3)
    scores,           \* the local array `scores` (result of the map), in row order
    recommendations,  \* value returned by the latest call
    first,            \* history: arguments and result of the first call, and
                      \* whether a call with other arguments has followed it
    request,          \* the HTTP request (session and body) being served
    response,         \* the HTTP response sent
    db,               \* the JSON database file (server/database.js)
    disk,             \* "ok", "unreadable" or "unwritable": what fs does next
    clock,            \* Date.now()
    sessions,         \* the session store: per client cookie, the session data
    pending,          \* per client: the signup or login waiting on bcrypt
    loggedOut,        \* history: per client, whether the last change of the
                      \* session was a successful logout
    reply             \* the latest response of an auth, orders or history route

scorerVars == <<TESLA_SPECS, preferences, called, threw, running, reasonsAll,
                scores, recommendations, first, request, response>>
siteVars == <<sessions, pending, loggedOut, reply>>
scoringVars == <<TESLA_SPECS, preferences, called, threw, running, reasonsAll,
                 scores, recommendations, first, response>>

vars == <<TESLA_SPECS, preferences, called, threw, running, reasonsAll, scores,
          recommendations, first, request, response, db, disk, clock, sessions,
          pending, loggedOut, reply>>

\* ------------------------------------------------------------------ bounds

MaxCars == 4

\* ------------------------------------------------------------ number model

\* parseInt / parseFloat of a non-numeric cell; every comparison with it is false
NaN == 0 - 1

Max(a, b) == IF a >= b THEN a ELSE b
Min(a, b) == IF a <= b THEN a ELSE b

\* JavaScript a <= b and a < b on numbers that may be NaN
JsLeq(a, b) == a # NaN /\ b # NaN /\ a <= b
JsLess(a, b) == a # NaN /\ b # NaN /\ a < b

RECURSIVE Pow2Floor(_)
\* the largest power of two not above n (1 for n <= 1): the binade of the double n
Pow2Floor(n) == IF n < 2 THEN 1 ELSE 2 * Pow2Floor(n \div 2)

\* price < maxBudget * 0.8 as the code computes it.  The double nearest 0.8 is
\* 0.8 + 0.4 * 2^-53; for integers below 2^31 the rounded product compares with
\* an integer price exactly as the real product does.
LessTimes08(price, maxBudget) ==
    /\ price # NaN
    /\ maxBudget # NaN
    /\ 5 * price < 4 * maxBudget

\* price <= maxBudget * 1.15 as the code computes it.  The double nearest 1.15 is
\* 1.15 - 0.4 * 2^-52, so the exact product lies just below 1.15 * maxBudget; when
\* 1.15 * maxBudget is the integer price, the product rounds up to price only if
\* the gap, (8/23) * price * 2^-52, is at most half the spacing of doubles below
\* price, Pow2Floor(price) * 2^-53.
LeqTimes115(price, maxBudget) ==
    /\ price # NaN
    /\ maxBudget # NaN
    /\ \/ 20 * price < 23 * maxBudget
       \/ /\ 20 * price = 23 * maxBudget
          /\ 16 * price <= 23 * Pow2Floor(price)

\* range >= dailyNeeded * 2.5 and range >= dailyNeeded * 1.5: both factors are
\* exact doubles and so are the products
GeqTimes25(range, dailyNeeded) ==
    range # NaN /\ dailyNeeded # NaN /\ 2 * range >= 5 * dailyNeeded
GeqTimes15(range, dailyNeeded) ==
    range # NaN /\ dailyNeeded # NaN /\ 2 * range >= 3 * dailyNeeded

\* ----------------------------------------------------------------- objects

\* whether the object has the key
Has(obj, key) == key \in DOMAIN obj

\* a property read where a number is expected: undefined compares as NaN
NumberOf(obj, key) == IF Has(obj, key) THEN obj[key] ELSE NaN

\* a property read where a string is compared: undefined equals no string
StringOf(obj, key) == IF Has(obj, key) THEN obj[key] ELSE "undefined"

\* a property read as a condition: undefined is falsy
Truthy(obj, key) == Has(obj, key) /\ obj[key] = TRUE

\* preferences.priceRange.max, preferences.dailyDistance, ... as the rules read them
PrefMaxBudget(p) == NumberOf(p.priceRange, "max")
\* a daily distance stretched by the share of highway driving
PrefDailyDistanceHighway(p) ==
    IF Has(p, "dailyDistance") /\ Has(p, "cityHighwayRatio")
    THEN (p.dailyDistance * (100 + p.cityHighwayRatio)) \div 100
    ELSE NumberOf(p, "dailyDistance")

PrefDailyDistance(p) == NumberOf(p, "dailyDistance")
PrefPassengers(p) == NumberOf(p, "passengers")
PrefStyle(p) == StringOf(p, "style")

\* a missing priority taken for 'Performance'
PrefPriorityPerformance(p) == IF Has(p, "priority") THEN p.priority ELSE "Performance"

PrefPriority(p) == StringOf(p, "priority")
PrefTowing(p) == Truthy(p, "towing")
PrefFsd(p) == Truthy(p, "fsd")

\* ------------------------------------------------------------------ inputs

\* Rows of the catalog file.  Seating is the list of alternatives of the cell
\* ("5/7" is <<5, 7>>), empty for an empty cell; Towing is "NA" or a figure,
\* kept as text as the code keeps it.
CarPool ==
    { [Model |-> "Model 3", Variant |-> "Standard", BasePrice |-> 41000,
       Range |-> 272, Accel |-> 45, Energy |-> 250, Seating |-> <<5>>,
       BodyType |-> "Sedan", Towing |-> "NA", FSD |-> "No"],
      [Model |-> "Model 3", Variant |-> "Long Range", BasePrice |-> 46000,
       Range |-> 300, Accel |-> 35, Energy |-> 260, Seating |-> <<>>,
       BodyType |-> "Sedan", Towing |-> "NA", FSD |-> "Yes"],
      [Model |-> "Model 3", Variant |-> "Performance", BasePrice |-> 46001,
       Range |-> 340, Accel |-> 29, Energy |-> 280, Seating |-> <<5>>,
       BodyType |-> "Sedan", Towing |-> "NA", FSD |-> "Yes"],
      [Model |-> "Model Y", Variant |-> "Long Range", BasePrice |-> 57500,
       Range |-> 320, Accel |-> 48, Energy |-> 280, Seating |-> <<5>>,
       BodyType |-> "SUV", Towing |-> "3500", FSD |-> "Yes"],
      [Model |-> "Model Y", Variant |-> "Long Range", BasePrice |-> 57500,
       Range |-> 320, Accel |-> 48, Energy |-> 280, Seating |-> <<5, 7>>,
       BodyType |-> "SUV", Towing |-> "3500", FSD |-> "Yes"] }

\* catalogs: lists of distinct rows, at most MaxCars of them
Catalogs ==
    UNION { { c \in [1..n -> CarPool] : \A i, j \in 1..n : i # j => c[i] # c[j] }
            : n \in 0..MaxCars }

PreferenceSets ==
    [ priceRange : [min : {0}, max : {40000, 50000, 57500}],
      dailyDistance : {120, 200},
      passengers : {5, 7},
      style : {"Any", "SUV"},
      priority : {"Balanced", "Performance", "Efficiency"},
      towing : BOOLEAN,
      fsd : BOOLEAN ]

\* ------------------------------------------------------------ the seven rules
\* Each rule gives the change of `score` and the entries it pushes on `reasons`.
\* A template string is the tuple of its pieces; a number is written in decimal
\* (the 0-60 time in tenths, a price without grouping separators).

\* the 5-point bonus given to every price within the ceiling
BudgetScoreFlatBonus(price, maxBudget) ==
    IF JsLeq(price, maxBudget) THEN 35
    ELSE IF LeqTimes115(price, maxBudget) THEN 15 ELSE 0 - 30

\* 1. Budget Scoring
BudgetScore(price, maxBudget) ==
    IF JsLeq(price, maxBudget)
    THEN 30 + (IF LessTimes08(price, maxBudget) THEN 5 ELSE 0)
    ELSE IF LeqTimes115(price, maxBudget) THEN 15 ELSE 0 - 30

BudgetReasons(price, maxBudget) ==
    IF JsLeq(price, maxBudget) THEN << <<"Fits budget: $", ToString(price)>> >> ELSE <<>>

\* the note pushed for every price above the ceiling
BudgetDetailsWheneverOver(price, maxBudget) ==
    IF ~JsLeq(price, maxBudget)
    THEN << <<"Slightly over budget ($", ToString(price), ")">> >>
    ELSE <<>>

BudgetDetails(price, maxBudget) ==
    IF ~JsLeq(price, maxBudget) /\ LeqTimes115(price, maxBudget)
    THEN << <<"Slightly over budget ($", ToString(price), ")">> >>
    ELSE <<>>

\* the rule with `>` where the code has `>=` on the 2.5 threshold
RangeScoreStrict(range, dailyNeeded) ==
    IF range # NaN /\ 2 * range > 5 * dailyNeeded THEN 25
    ELSE IF GeqTimes15(range, dailyNeeded) THEN 15 ELSE 0 - 10

\* 2. Range & Commute
RangeScore(range, dailyNeeded) ==
    IF GeqTimes25(range, dailyNeeded) THEN 25
    ELSE IF GeqTimes15(range, dailyNeeded) THEN 15 ELSE 0 - 10

RangeReasons(range, dailyNeeded) ==
    IF GeqTimes25(range, dailyNeeded)
    THEN << <<"Range (", ToString(range), "mi) covers daily drive">> >>
    ELSE <<>>

\* the rule with `<=` where the code has `<` on the two acceleration thresholds
PriorityScoreInclusive(car, priority) ==
    IF priority = "Performance"
    THEN IF JsLeq(car.Accel, 35) THEN 20
         ELSE IF JsLeq(car.Accel, 45) THEN 10 ELSE 0
    ELSE IF priority = "Efficiency"
         THEN IF JsLess(car.Energy, 260) THEN 20 ELSE 0
         ELSE 0

\* 3. Performance Preference (accel in tenths: 3.5 s is 35, 4.5 s is 45)
PriorityScore(car, priority) ==
    IF priority = "Performance"
    THEN IF JsLess(car.Accel, 35) THEN 20
         ELSE IF JsLess(car.Accel, 45) THEN 10 ELSE 0
    ELSE IF priority = "Efficiency"
         THEN IF JsLess(car.Energy, 260) THEN 20 ELSE 0
         ELSE 0

PriorityReasons(car, priority) ==
    IF priority = "Performance" /\ JsLess(car.Accel, 35)
    THEN << <<"Supercar acceleration: ", ToString(car.Accel), "s">> >>
    ELSE IF priority = "Efficiency" /\ JsLess(car.Energy, 260)
         THEN << <<"High efficiency: ", ToString(car.Energy), " Wh/mi">> >>
         ELSE <<>>

\* 4. Utility & Passengers
RECURSIVE SeqMax(_)
SeqMax(s) == IF Len(s) = 1 THEN s[1] ELSE Max(s[1], SeqMax(Tail(s)))

\* parseInt(seatsStr) alone, which reads "5/7" as 5
MaxSeatsParseIntOnly(seating) == IF seating = <<>> THEN 5 ELSE seating[1]

\* seatsStr = cell || '5'; Math.max over the '/' alternatives, else parseInt
MaxSeats(seating) == IF seating = <<>> THEN 5 ELSE SeqMax(seating)

\* the rule with `>` where the code has `>=`
SeatingScoreStrict(maxSeats, passengers) ==
    IF passengers # NaN /\ maxSeats > passengers THEN 15 ELSE 0 - 50

SeatingScore(maxSeats, passengers) ==
    IF passengers # NaN /\ maxSeats >= passengers THEN 15 ELSE 0 - 50

SeatingReasons(maxSeats, passengers) ==
    IF passengers # NaN /\ maxSeats >= passengers /\ maxSeats > 5 /\ passengers > 5
    THEN << <<"Seats ", ToString(maxSeats), " people">> >>
    ELSE <<>>

\* 5. Style Match
\* the test without the comparison with the row's body type
StyleMatchesAnyBody(car, style) == style # "Any"

StyleMatches(car, style) == style # "Any" /\ car.BodyType = style
StyleScore(car, style) == IF StyleMatches(car, style) THEN 10 ELSE 0
StyleReasons(car, style) ==
    IF StyleMatches(car, style) THEN << <<"Matches ", car.BodyType, " style">> >> ELSE <<>>

\* 6. Special Features
\* the test without the 'NA' check
TowingAppliesToAll(car, towing) == towing

TowingApplies(car, towing) == towing /\ car.Towing # "NA"
TowingScore(car, towing) == IF TowingApplies(car, towing) THEN 15 ELSE 0
TowingReasons(car, towing) ==
    IF TowingApplies(car, towing) THEN << <<"Towing: ", car.Towing, " lbs">> >> ELSE <<>>

\* 7. FSD Capability
\* the test without the row's "Full Self Driving Available" cell
FsdAppliesToAll(car, fsd) == fsd

FsdApplies(car, fsd) == fsd /\ car.FSD = "Yes"
FsdScore(car, fsd) == IF FsdApplies(car, fsd) THEN 10 ELSE 0
FsdReasons(car, fsd) ==
    IF FsdApplies(car, fsd) THEN << <<"Full Self Driving Hardware Ready">> >> ELSE <<>>

\* the seven changes of `score`, in the order the code applies them
RuleScores(car, p) ==
    << BudgetScore(car.BasePrice, PrefMaxBudget(p)),
       RangeScore(car.Range, PrefDailyDistance(p)),
       PriorityScore(car, PrefPriority(p)),
       SeatingScore(MaxSeats(car.Seating), PrefPassengers(p)),
       StyleScore(car, PrefStyle(p)),
       TowingScore(car, PrefTowing(p)),
       FsdScore(car, PrefFsd(p)) >>

RECURSIVE PrefixSum(_, _)
PrefixSum(s, n) == IF n = 0 THEN 0 ELSE PrefixSum(s, n - 1) + s[n]

\* the value of `score` after rule 1, 2, ..., 7 (it starts at 0)
RunningScores(car, p) ==
    LET deltas == RuleScores(car, p)
    IN  [n \in 1..7 |-> PrefixSum(deltas, n)]

\* the array `reasons` when the seven rules are done
AllReasons(car, p) ==
    BudgetReasons(car.BasePrice, PrefMaxBudget(p))
    \o RangeReasons(car.Range, PrefDailyDistance(p))
    \o PriorityReasons(car, PrefPriority(p))
    \o SeatingReasons(MaxSeats(car.Seating), PrefPassengers(p))
    \o StyleReasons(car, PrefStyle(p))
    \o TowingReasons(car, PrefTowing(p))
    \o FsdReasons(car, PrefFsd(p))

\* ------------------------------------------------------------ output shaping

\* the score passed on without Math.max
ClampScoreMissing(score) == score

\* Math.max(0, score)
ClampScore(score) == Max(0, score)

\* reasons.slice(-3): the last three
SliceReasonsLast(reasons) == SubSeq(reasons, Max(1, Len(reasons) - 2), Len(reasons))

\* reasons.slice(0, 3)
SliceReasons(reasons) == SubSeq(reasons, 1, Min(3, Len(reasons)))

\* VEHICLE_ASSETS[car.Model]?.id || 'unknown'
AssetId(model) ==
    CASE model = "Model 3" -> "model3"
      [] model = "Model Y" -> "modelY"
      [] model = "Model S" -> "modelS"
      [] model = "Model X" -> "modelX"
      [] model = "Cybertruck" -> "cybertruck"
      [] OTHER -> "unknown"

\* a number in a template string
NumberText(x) == IF x = NaN THEN "NaN" ELSE ToString(x)

\* The object the map callback returns for row number `row`.  `row` is not a
\* property of the JavaScript object: it stands for the object's identity, which
\* is what the sort moves around.
Candidate(car, row, p) ==
    [ row |-> row,
      id |-> AssetId(car.Model),
      name |-> <<car.Model, car.Variant>>,
      basePrice |-> car.BasePrice,
      range |-> <<NumberText(car.Range), " mi">>,
      acceleration |-> <<NumberText(car.Accel), "s">>,
      score |-> ClampScore(RunningScores(car, p)[7]),
      reasons |-> SliceReasons(AllReasons(car, p)),
      details |-> BudgetDetails(car.BasePrice, PrefMaxBudget(p)) ]

\* ------------------------------------------------------------------ ranking

\* the comparator (a, b) => a.score - b.score, which sorts ascending
ComesBeforeAscending(b, a) == a.score - b.score > 0

\* the comparator (a, b) => b.score - a.score puts b before a when positive
ComesBefore(b, a) == b.score - a.score > 0

RECURSIVE InsertSortedUnstable(_, _)
\* an insertion that also passes the elements x ties with
InsertSortedUnstable(x, sorted) ==
    IF sorted = <<>> THEN <<x>>
    ELSE LET last == sorted[Len(sorted)]
         IN  IF x.score >= last.score
             THEN InsertSortedUnstable(x, SubSeq(sorted, 1, Len(sorted) - 1)) \o <<last>>
             ELSE sorted \o <<x>>

RECURSIVE InsertSorted(_, _)
\* x, later in the input than every element of sorted, goes behind the elements
\* the comparator does not put it before (Array.prototype.sort is stable)
InsertSorted(x, sorted) ==
    IF sorted = <<>> THEN <<x>>
    ELSE LET last == sorted[Len(sorted)]
         IN  IF ComesBefore(x, last)
             THEN InsertSorted(x, SubSeq(sorted, 1, Len(sorted) - 1)) \o <<last>>
             ELSE sorted \o <<x>>

\* the array left in catalog order
SortByScoreMissing(s) == s

RECURSIVE SortByScore(_)
SortByScore(s) ==
    IF s = <<>> THEN <<>>
    ELSE InsertSorted(s[Len(s)], SortByScore(SubSeq(s, 1, Len(s) - 1)))

\* .slice(0, 3)
TopThree(s) == SubSeq(s, 1, Min(3, Len(s)))

\* ------------------------------------------------------------ state machine

\* the budget ceiling read once, ahead of the map
ThrowsBeforeMap(catalog, p) == ~Has(p, "priceRange")

\* preferences.priceRange.max raises a TypeError when preferences has no
\* priceRange; the callback of the first row reaches it, an empty catalog does not
Throws(catalog, p) == Len(catalog) > 0 /\ ~Has(p, "priceRange")

\* the array `scores`: the map over the catalog
Mapped(catalog, p) == [i \in 1..Len(catalog) |-> Candidate(catalog[i], i, p)]

\* a call that sorted TESLA_SPECS itself by the scores it computed
CatalogSortedInPlace(catalog, p) ==
    IF Throws(catalog, p) THEN catalog
    ELSE LET sorted == SortByScore(Mapped(catalog, p))
         IN  [k \in 1..Len(catalog) |-> catalog[sorted[k].row]]

\* a call that stored each score on its row: car.score = ...
CatalogWithScores(catalog, p) ==
    IF Throws(catalog, p) THEN catalog
    ELSE [i \in 1..Len(catalog) |->
             [score |-> Mapped(catalog, p)[i].score] @@ catalog[i]]

\* TESLA_SPECS after a call: map builds a new array of new objects and sort
\* works on that array, so nothing is written to the catalog
CatalogAfterCall(catalog, p) == catalog

NoPreferences == <<>>
NoFirst ==
    [prefs |-> NoPreferences, threw |-> FALSE, scores |-> <<>>, result |-> <<>>,
     others |-> FALSE]
NoRequest == [session |-> <<>>, body |-> <<>>]
NoResponse == [status |-> 0, message |-> "", success |-> FALSE, recommendations |-> <<>>]
EmptyDb == [users |-> <<>>, orders |-> <<>>, analytics |-> <<>>, recommendations |-> <<>>]

Clients == {"c1", "c2"}
NoSession == <<>>
NoPending == <<>>
NoReply == [route |-> "", client |-> "", status |-> 0, user |-> <<>>,
            orders |-> <<>>, authenticated |-> FALSE]

\* no request of the auth, orders or history routes made yet
SiteIdle ==
    /\ disk = "ok"
    /\ clock = 1
    /\ sessions = [c \in Clients |-> NoSession]
    /\ pending = [c \in Clients |-> NoPending]
    /\ loggedOut = [c \in Clients |-> FALSE]
    /\ reply = NoReply

\* calculateAdvancedRecommendations(p)
Call(p) ==
    LET n == Len(TESLA_SPECS)
        fails == Throws(TESLA_SPECS, p)
        mapped == IF fails THEN <<>> ELSE Mapped(TESLA_SPECS, p)
        result == TopThree(SortByScore(mapped))
    IN  /\ preferences' = p
        /\ called' = TRUE
        /\ threw' = fails
        /\ running' = IF fails THEN <<>>
                      ELSE [i \in 1..n |-> RunningScores(TESLA_SPECS[i], p)]
        /\ reasonsAll' = IF fails THEN <<>>
                         ELSE [i \in 1..n |-> AllReasons(TESLA_SPECS[i], p)]
        /\ scores' = mapped
        /\ recommendations' = result
        /\ TESLA_SPECS' = CatalogAfterCall(TESLA_SPECS, p)
        /\ first' = IF ~called
                    THEN [prefs |-> p, threw |-> fails, scores |-> mapped,
                          result |-> result, others |-> FALSE]
                    ELSE [first EXCEPT !.others = @ \/ p # first.prefs]

Init ==
    /\ TESLA_SPECS \in Catalogs
    /\ preferences \in PreferenceSets
    /\ called = FALSE
    /\ threw = FALSE
    /\ running = <<>>
    /\ reasonsAll = <<>>
    /\ scores = <<>>
    /\ recommendations = <<>>
    /\ first = NoFirst
    /\ request = NoRequest
    /\ response = NoResponse
    /\ db = EmptyDb
    /\ SiteIdle

\* calculateAdvancedRecommendations(preferences)
Recommend ==
    /\ Call(preferences)
    /\ UNCHANGED <<request, response, db, disk, clock, siteVars>>

Next == Recommend

Spec == Init /\ [][Next]_vars

\* ------------------------------------------------- a sequence of calls
\* The function is synchronous and the server single-threaded, so calls do not
\* interleave: each call is one step.

MaxCallCars == 2

\* the Model 3 Standard row of the worked example
ExampleCar ==
    [Model |-> "Model 3", Variant |-> "Standard", BasePrice |-> 38990,
     Range |-> 272, Accel |-> 58, Energy |-> 250, Seating |-> <<5>>,
     BodyType |-> "Sedan", Towing |-> "NA", FSD |-> "No"]

\* the preferences of the worked example: no towing and no fsd key
ExamplePreferences ==
    [ priceRange |-> [min |-> 30000, max |-> 40000], dailyDistance |-> 30,
      passengers |-> 5, style |-> "Any", priority |-> "Balanced" ]

CallPool == CarPool \cup {ExampleCar}

CallCatalogs ==
    UNION { { c \in [1..n -> CallPool] : \A i, j \in 1..n : i # j => c[i] # c[j] }
            : n \in 0..MaxCallCars }

\* the object without the given keys
Without(obj, keys) == [k \in DOMAIN obj \ keys |-> obj[k]]

OptionalKeys == {"priority", "towing", "fsd"}
InertKeys == {"cityHighwayRatio", "colorPreference"}

CityCommuter ==
    [ priceRange |-> [min |-> 0, max |-> 50000], dailyDistance |-> 120,
      passengers |-> 5, style |-> "Any", priority |-> "Balanced",
      towing |-> FALSE, fsd |-> FALSE ]
FamilyHauler ==
    [ priceRange |-> [min |-> 0, max |-> 57500], dailyDistance |-> 200,
      passengers |-> 7, style |-> "SUV", priority |-> "Performance",
      towing |-> TRUE, fsd |-> TRUE ]
FamilyPlain ==
    [FamilyHauler EXCEPT !.priority = "Balanced", !.towing = FALSE, !.fsd = FALSE]

\* preference objects of the calls: complete ones, ones that leave out
\* priority, towing and fsd, and ones that carry cityHighwayRatio and
\* colorPreference
CallPreferences ==
    { CityCommuter, FamilyHauler, FamilyPlain, ExamplePreferences,
      Without(CityCommuter, OptionalKeys),
      Without(FamilyHauler, OptionalKeys),
      [cityHighwayRatio |-> 50] @@ CityCommuter,
      [colorPreference |-> "Red"] @@ CityCommuter,
      [cityHighwayRatio |-> 80, colorPreference |-> "Blue"] @@ FamilyHauler }

InitCalls ==
    /\ TESLA_SPECS \in CallCatalogs
    /\ preferences = NoPreferences
    /\ called = FALSE
    /\ threw = FALSE
    /\ running = <<>>
    /\ reasonsAll = <<>>
    /\ scores = <<>>
    /\ recommendations = <<>>
    /\ first = NoFirst
    /\ request = NoRequest
    /\ response = NoResponse
    /\ db = EmptyDb
    /\ SiteIdle

\* calculateAdvancedRecommendations(p), for any of the preference objects
CallWith ==
    \E p \in CallPreferences :
        /\ Call(p)
        /\ UNCHANGED <<request, response, db, disk, clock, siteVars>>

NextCalls == CallWith

SpecCalls == InitCalls /\ [][NextCalls]_vars

\* ------------------------------------------------- POST /api/recommend
\* One request through the route handler, on a catalog that may hold rows
\* whose numeric columns did not parse.

MaxRouteCars == 2

\* rows with a price, or a range and a 0-60 time, that parseInt and
\* parseFloat turn into NaN
MalformedPool ==
    { [Model |-> "Model S", Variant |-> "Plaid", BasePrice |-> NaN,
       Range |-> 396, Accel |-> 20, Energy |-> 290, Seating |-> <<5>>,
       BodyType |-> "Sedan", Towing |-> "NA", FSD |-> "Yes"],
      [Model |-> "Model X", Variant |-> "Long Range", BasePrice |-> 46000,
       Range |-> NaN, Accel |-> NaN, Energy |-> 330, Seating |-> <<5, 7>>,
       BodyType |-> "SUV", Towing |-> "5000", FSD |-> "Yes"] }

RoutePool == CarPool \cup MalformedPool

RouteCatalogs ==
    UNION { { c \in [1..n -> RoutePool] : \A i, j \in 1..n : i # j => c[i] # c[j] }
            : n \in 0..MaxRouteCars }

\* preference objects of the request body: complete ones, and ones from
\* which priceRange, priceRange.max, dailyDistance, passengers, style or the
\* three optional keys are missing
RoutePreferences ==
    UNION { { b,
              Without(b, {"priceRange"}),
              [b EXCEPT !.priceRange = [min |-> 0]],
              Without(b, {"dailyDistance"}),
              Without(b, {"passengers"}),
              Without(b, {"style"}),
              Without(b, OptionalKeys) } : b \in {CityCommuter, FamilyHauler} }

\* a body without preferences, or with one of the preference objects
Requests ==
    [ session : {<<>>, [userId |-> 1]},
      body : {<<>>} \cup {[preferences |-> p] : p \in RoutePreferences} ]

\* db.trackAnalytics(filterType, filterValue): count the entry with this type
\* and value, or add it with count 1
TrackOne(analytics, filterType, filterValue) ==
    IF \E k \in 1..Len(analytics) :
           analytics[k].filterType = filterType /\ analytics[k].filterValue = filterValue
    THEN [k \in 1..Len(analytics) |->
             IF analytics[k].filterType = filterType
                /\ analytics[k].filterValue = filterValue
             THEN [analytics[k] EXCEPT !.count = @ + 1]
             ELSE analytics[k]]
    ELSE Append(analytics,
                [filterType |-> filterType, filterValue |-> filterValue, count |-> 1])

\* trackAnalytics(preferences): style, then passengers, then priority; without
\* passengers, toString raises after the first entry and the error is logged
TrackAnalytics(analytics, p) ==
    LET style == TrackOne(analytics, "style", PrefStyle(p))
    IN  IF ~Has(p, "passengers") THEN style
        ELSE TrackOne(TrackOne(style, "passengers", ToString(p.passengers)),
                      "priority",
                      IF Has(p, "priority") THEN p.priority ELSE "Balanced")

\* db.saveRecommendation(...) for a session with a userId, nothing otherwise
SaveRecommendation(saved, session, p, result) ==
    IF Has(session, "userId")
    THEN Append(saved,
                [userId |-> session.userId, preferences |-> p,
                 recommendations |->
                     [k \in 1..Len(result) |->
                         [vehicleId |-> result[k].id, vehicleName |-> result[k].name,
                          score |-> result[k].score, reasons |-> result[k].reasons,
                          estimatedPrice |-> result[k].basePrice]]])
    ELSE saved

InitRoute ==
    /\ TESLA_SPECS \in RouteCatalogs
    /\ request \in Requests
    /\ response = NoResponse
    /\ db = EmptyDb
    /\ preferences = NoPreferences
    /\ called = FALSE
    /\ threw = FALSE
    /\ running = <<>>
    /\ reasonsAll = <<>>
    /\ scores = <<>>
    /\ recommendations = <<>>
    /\ first = NoFirst
    /\ SiteIdle

\* router.post('/recommend', ...)
PostRecommend ==
    /\ response = NoResponse
    /\ IF ~Has(request.body, "preferences")
       THEN /\ response' = [NoResponse EXCEPT !.status = 400,
                                              !.message = "Preferences required"]
            /\ UNCHANGED <<TESLA_SPECS, preferences, called, threw, running,
                           reasonsAll, scores, recommendations, first, db>>
       ELSE LET p == request.body.preferences
            IN  /\ Call(p)
                /\ IF Throws(TESLA_SPECS, p)
                   THEN /\ response' =
                            [NoResponse EXCEPT
                                !.status = 500,
                                !.message = "Failed to generate recommendations"]
                        /\ db' = db
                   ELSE /\ response' =
                            [status |-> 200, message |-> "", success |-> TRUE,
                             recommendations |-> recommendations']
                        /\ db' = [db EXCEPT
                                     !.analytics = TrackAnalytics(@, p),
                                     !.recommendations =
                                         SaveRecommendation(@, request.session, p,
                                                            recommendations')]
    /\ UNCHANGED <<request, disk, clock, siteVars>>

NextRoute == PostRecommend

SpecRoute == InitRoute /\ [][NextRoute]_vars

\* ------------------------------------------------- database.js
\* The file tesla_data.json is the variable db. Every function reads the whole
\* file, changes the parsed object and writes the whole object back. Time
\* stamps and ids are Date.now(), the variable clock, which need not have
\* advanced between two calls.

MaxUsers == 2
MaxOrders == 2
MaxSaved == 1
MaxTracked == 2
MaxClock == 3

\* readDb(): the parsed file, or { users: [], orders: [] } when reading or
\* parsing fails (absent analytics and recommendations are treated as [])
readDb(file, fs) == IF fs = "unreadable" THEN EmptyDb ELSE file

\* writeDb(data): the file after the call; a failed write is logged and
\* leaves the file as it is
writeDb(file, fs, data) == IF fs = "unwritable" THEN file ELSE data

\* email.toLowerCase().trim()
NormalizeEmail(email) ==
    CASE email = " Ann@X.com " -> "ann@x.com"
      [] email = "ANN@x.com" -> "ann@x.com"
      [] OTHER -> email

NoUser == <<>>

\* users.find(test): the first of the users at the indexes that pass the
\* test, or undefined
FindFirst(users, hits) ==
    IF hits = {} THEN NoUser
    ELSE users[CHOOSE k \in hits : \A j \in hits : k <= j]

findUserByEmail(file, fs, email) ==
    LET users == readDb(file, fs).users
    IN  FindFirst(users, {k \in 1..Len(users) :
                             users[k].email = NormalizeEmail(email)})

findUserById(file, fs, id) ==
    LET users == readDb(file, fs).users
    IN  FindFirst(users, {k \in 1..Len(users) : users[k].id = id})

\* { ...userData, id, email, createdAt }: the later keys win
NewUser(userData, now) ==
    [id |-> now, email |-> NormalizeEmail(userData.email), createdAt |-> now]
        @@ userData

createUser(file, fs, userData, now) ==
    LET data == readDb(file, fs)
    IN  writeDb(file, fs, [data EXCEPT !.users = Append(@, NewUser(userData, now))])

\* { ...orderData, id, status: 'Paid', createdAt }
NewOrder(orderData, now) ==
    [id |-> now, status |-> "Paid", createdAt |-> now] @@ orderData

createOrder(file, fs, orderData, now) ==
    LET data == readDb(file, fs)
    IN  writeDb(file, fs, [data EXCEPT !.orders = Append(@, NewOrder(orderData, now))])

\* { ...recommendationData, id, createdAt }
NewRecommendation(recommendationData, now) ==
    [id |-> now, createdAt |-> now] @@ recommendationData

saveRecommendation(file, fs, recommendationData, now) ==
    LET data == readDb(file, fs)
    IN  writeDb(file, fs,
                [data EXCEPT !.recommendations =
                                 Append(@, NewRecommendation(recommendationData, now))])

trackAnalytics(file, fs, filterType, filterValue) ==
    LET data == readDb(file, fs)
    IN  writeDb(file, fs,
                [data EXCEPT !.analytics = TrackOne(@, filterType, filterValue)])

\* the scorer and the recommend route at rest
ScorerIdle ==
    /\ TESLA_SPECS = <<>>
    /\ preferences = NoPreferences
    /\ called = FALSE
    /\ threw = FALSE
    /\ running = <<>>
    /\ reasonsAll = <<>>
    /\ scores = <<>>
    /\ recommendations = <<>>
    /\ first = NoFirst
    /\ request = NoRequest
    /\ response = NoResponse

\* ------------------------------------------------- calls of database.js

StoredUserData ==
    { [name |-> "Ann", email |-> "ann@x.com", password |-> "hash"] }
StoredOrderData ==
    { [vehicleName |-> "Model 3", totalPrice |-> 41000, userId |-> 1] }
StoredRecommendationData ==
    { [userId |-> 1, preferences |-> CityCommuter, recommendations |-> <<>>] }
TrackedFilters == { <<"style", "SUV">>, <<"priority", "Balanced">> }

\* sum of the counts of the analytics entries
RECURSIVE TotalCount(_)
TotalCount(analytics) ==
    IF analytics = <<>> THEN 0
    ELSE Head(analytics).count + TotalCount(Tail(analytics))

InitStore ==
    /\ db = EmptyDb
    /\ ScorerIdle
    /\ SiteIdle

StoreCreateUser ==
    /\ Len(db.users) < MaxUsers
    /\ \E userData \in StoredUserData : db' = createUser(db, disk, userData, clock)
    /\ UNCHANGED <<scorerVars, siteVars, disk, clock>>

StoreCreateOrder ==
    /\ Len(db.orders) < MaxOrders
    /\ \E orderData \in StoredOrderData : db' = createOrder(db, disk, orderData, clock)
    /\ UNCHANGED <<scorerVars, siteVars, disk, clock>>

StoreSaveRecommendation ==
    /\ Len(db.recommendations) < MaxSaved
    /\ \E recommendationData \in StoredRecommendationData :
           db' = saveRecommendation(db, disk, recommendationData, clock)
    /\ UNCHANGED <<scorerVars, siteVars, disk, clock>>

StoreTrackAnalytics ==
    /\ TotalCount(db.analytics) < MaxTracked
    /\ \E f \in TrackedFilters : db' = trackAnalytics(db, disk, f[1], f[2])
    /\ UNCHANGED <<scorerVars, siteVars, disk, clock>>

\* the next read or write of the file fails, or works again
DiskChanges ==
    /\ \E fs \in {"ok", "unreadable", "unwritable"} : fs # disk /\ disk' = fs
    /\ UNCHANGED <<scorerVars, siteVars, db, clock>>

\* a millisecond passes
Tick ==
    /\ clock < MaxClock
    /\ clock' = clock + 1
    /\ request' = NoRequest
    /\ reply' = NoReply
    /\ UNCHANGED <<scoringVars, sessions, pending, loggedOut, db, disk>>

NextStore ==
    \/ StoreCreateUser
    \/ StoreCreateOrder
    \/ StoreSaveRecommendation
    \/ StoreTrackAnalytics
    \/ DiskChanges
    \/ Tick

SpecStore == InitStore /\ [][NextStore]_vars

\* ------------------------------------------------- auth, orders, history
\* Two clients, each with a session cookie. A handler runs from one await to
\* the next as one step: signup and login are two steps each, around
\* bcrypt.hash and bcrypt.compare, and steps of different requests interleave.
\* The session middleware is taken to load the session when the step starts
\* and to save it when the step ends; the time stamps kept in the session are
\* left out. The file is read and written without failure here (disk = "ok").
\* request is the request the latest step served and reply the response it
\* sent, NoReply when it sent none.

\* bcrypt.hash(password, 10), without the salt
Hash(password) == <<"$2a$10$", password>>

\* bcrypt.compare(password, stored)
Compare(password, stored) == stored = Hash(password)

\* a record written by an earlier version, with the hash under passwordHash
LegacyUser ==
    [id |-> 1, name |-> "Old", email |-> "old@x.com",
     passwordHash |-> Hash("secret1"), createdAt |-> 1]

\* a record with no hash at all
BrokenUser == [id |-> 1, name |-> "Old", email |-> "old@x.com", createdAt |-> 1]

InitialUsers == { <<>>, <<LegacyUser>>, <<BrokenUser>> }

SignupBodies ==
    { [name |-> "Ann", email |-> "ann@x.com", password |-> "secret1"],
      [name |-> "Ann", email |-> " Ann@X.com ", password |-> "secret1"],
      [name |-> "Ann", email |-> "ann@x.com", password |-> "short"],
      [email |-> "ann@x.com", password |-> "secret1"] }

LoginBodies ==
    { [email |-> "ANN@x.com", password |-> "secret1"],
      [email |-> "ann@x.com", password |-> "secret2"],
      [email |-> "old@x.com", password |-> "secret1"],
      [email |-> "ann@x.com"] }

OrderBodies ==
    { [vehicleName |-> "Model 3", totalPrice |-> 41000],
      [vehicleName |-> "Model Y", totalPrice |-> 57500, userId |-> 1],
      [vehicleName |-> "Model 3"] }

\* !value for a body field: the field is absent (no body here carries the
\* other falsy values, 0 and '')
Missing(body, key) == ~Has(body, key)

\* !req.session || !req.session.userId
Anonymous(session) == ~Has(session, "userId")

\* const { password, ...userWithoutPassword } = user
WithoutPassword(user) == Without(user, {"password"})

\* an order that takes the userId of the body when the body has one
OrderDataBodyFirst(body, session) == body @@ [userId |-> session.userId]

\* { ...req.body, userId: req.session.userId }
OrderData(body, session) == [userId |-> session.userId] @@ body

\* every order, whoever placed it
OwnOrdersUnfiltered(orders, userId) == orders

\* orders.filter(o => o.userId === userId)
OwnOrders(orders, userId) == SelectSeq(orders, LAMBDA o : o.userId = userId)

\* sort((a, b) => new Date(b.createdAt) - new Date(a.createdAt)), stable
RECURSIVE InsertNewestFirst(_, _)
InsertNewestFirst(sorted, entry) ==
    IF sorted = <<>> THEN <<entry>>
    ELSE IF entry.createdAt > Head(sorted).createdAt THEN <<entry>> \o sorted
         ELSE <<Head(sorted)>> \o InsertNewestFirst(Tail(sorted), entry)

RECURSIVE NewestFirst(_)
NewestFirst(entries) ==
    IF entries = <<>> THEN <<>>
    ELSE InsertNewestFirst(NewestFirst(SubSeq(entries, 1, Len(entries) - 1)),
                           entries[Len(entries)])

findOrdersByUserId(file, fs, userId) ==
    NewestFirst(OwnOrders(readDb(file, fs).orders, userId))

findRecommendationsByUserId(file, fs, userId) ==
    NewestFirst(SelectSeq(readDb(file, fs).recommendations,
                          LAMBDA r : r.userId = userId))

\* the request a step serves: the session it came with and its body
Req(session, body) == [session |-> session, body |-> body]

\* the response of a route to a client, with a status and nothing else
Status(route, c, code) ==
    [NoReply EXCEPT !.route = route, !.client = c, !.status = code]

\* req.session.userId = user.id; req.session.userEmail = user.email
SessionOf(user) == [userId |-> user.id, userEmail |-> user.email]

\* a logout that answers without destroying the session
SessionAfterLogoutKept(session) == session

\* req.session.destroy(): the session is removed from the store
SessionAfterLogout(session) == NoSession

\* a failed login that signs the user in all the same
SessionAfterLoginAlways(session, user, valid) == SessionOf(user)

\* the session when the login step ends
SessionAfterLogin(session, user, valid) ==
    IF valid THEN SessionOf(user) ELSE session

\* a rejected signup that drops the session
SessionAfterRejectedSignupCleared(session) == NoSession

\* the session after a signup that validation or the email check rejected
SessionAfterRejectedSignup(session) == session

\* user.password || user.passwordHash
StoredPassword(user) ==
    IF Has(user, "password") THEN user.password
    ELSE IF Has(user, "passwordHash") THEN user.passwordHash
    ELSE "undefined"

\* the validation of signup: 400 for a missing field or a short password
SignupInvalid(body) ==
    \/ Missing(body, "name") \/ Missing(body, "email") \/ Missing(body, "password")
    \/ Len(body.password) < 6

\* what login answers before it compares the password, 0 when it goes on
LoginEarlyStatus(body, user) ==
    IF Missing(body, "email") \/ Missing(body, "password") THEN 400
    ELSE IF user = NoUser THEN 404
    ELSE IF ~Has(user, "password") /\ ~Has(user, "passwordHash") THEN 500
    ELSE 0

\* GET /api/auth/check
AuthCheckReply(file, fs, c, session) ==
    LET user == IF Anonymous(session) THEN NoUser
                ELSE findUserById(file, fs, session.userId)
    IN  IF user = NoUser THEN Status("GET /api/auth/check", c, 200)
        ELSE [Status("GET /api/auth/check", c, 200) EXCEPT
                 !.authenticated = TRUE, !.user = WithoutPassword(user)]

\* GET /api/auth/profile
ProfileReply(file, fs, c, session) ==
    LET user == IF Anonymous(session) THEN NoUser
                ELSE findUserById(file, fs, session.userId)
    IN  IF Anonymous(session) THEN Status("GET /api/auth/profile", c, 401)
        ELSE IF user = NoUser THEN Status("GET /api/auth/profile", c, 404)
        ELSE [Status("GET /api/auth/profile", c, 200) EXCEPT
                 !.user = WithoutPassword(user)]

\* the status of POST /api/orders
PostOrderStatus(session, body) ==
    IF Anonymous(session) THEN 401
    ELSE IF Missing(body, "vehicleName") \/ Missing(body, "totalPrice") THEN 400
    ELSE 201

\* GET /api/orders
GetOrdersReply(file, fs, c, session) ==
    IF Anonymous(session) THEN Status("GET /api/orders", c, 401)
    ELSE [Status("GET /api/orders", c, 200) EXCEPT
             !.orders = findOrdersByUserId(file, fs, session.userId)]

\* GET /api/recommend/history: the ten newest saved recommendations
HistoryReply(file, fs, c, session) ==
    IF Anonymous(session) THEN Status("GET /api/recommend/history", c, 401)
    ELSE LET history == findRecommendationsByUserId(file, fs, session.userId)
         IN  [Status("GET /api/recommend/history", c, 200) EXCEPT
                 !.orders = SubSeq(history, 1, Min(10, Len(history)))]

InitSite ==
    /\ ScorerIdle
    /\ db \in {[EmptyDb EXCEPT !.users = u] : u \in InitialUsers}
    /\ disk = "ok"
    /\ clock = 2
    /\ sessions = [c \in Clients |-> NoSession]
    /\ pending = [c \in Clients |-> NoPending]
    /\ loggedOut = [c \in Clients |-> FALSE]
    /\ reply = NoReply

\* POST /api/auth/signup up to `await bcrypt.hash`
SignupBegin ==
    \E c \in Clients, body \in SignupBodies :
        /\ request' = Req(sessions[c], body)
        /\ pending[c] = NoPending
        /\ IF SignupInvalid(body)
           THEN /\ reply' = Status("POST /api/auth/signup", c, 400)
                /\ sessions' = [sessions EXCEPT ![c] = SessionAfterRejectedSignup(@)]
                /\ pending' = pending
           ELSE IF findUserByEmail(db, disk, body.email) # NoUser
           THEN /\ reply' = Status("POST /api/auth/signup", c, 409)
                /\ sessions' = [sessions EXCEPT ![c] = SessionAfterRejectedSignup(@)]
                /\ pending' = pending
           ELSE /\ pending' = [pending EXCEPT ![c] = [route |-> "signup", body |-> body]]
                /\ reply' = NoReply
                /\ sessions' = sessions
        /\ UNCHANGED <<scoringVars, db, disk, clock, loggedOut>>

\* POST /api/auth/signup from the resolved hash to the response
SignupFinish ==
    \E c \in Clients :
        /\ pending[c] # NoPending
        /\ pending[c].route = "signup"
        /\ request' = Req(sessions[c], pending[c].body)
        /\ Len(db.users) < MaxUsers
        /\ LET body == pending[c].body
               userData == [name |-> body.name, email |-> body.email,
                            password |-> Hash(body.password)]
               newUser == NewUser(userData, clock)
           IN  /\ db' = createUser(db, disk, userData, clock)
               /\ sessions' = [sessions EXCEPT ![c] = SessionOf(newUser)]
               /\ loggedOut' = [loggedOut EXCEPT ![c] = FALSE]
               /\ reply' = [Status("POST /api/auth/signup", c, 201) EXCEPT
                               !.user = WithoutPassword(newUser)]
        /\ pending' = [pending EXCEPT ![c] = NoPending]
        /\ UNCHANGED <<scoringVars, disk, clock>>

\* POST /api/auth/login up to `await bcrypt.compare`
LoginBegin ==
    \E c \in Clients, body \in LoginBodies :
        /\ request' = Req(sessions[c], body)
        /\ pending[c] = NoPending
        /\ LET user == IF Missing(body, "email") THEN NoUser
                       ELSE findUserByEmail(db, disk, body.email)
               code == LoginEarlyStatus(body, user)
           IN  IF code # 0
               THEN /\ reply' = Status("POST /api/auth/login", c, code)
                    /\ pending' = pending
               ELSE /\ pending' = [pending EXCEPT ![c] =
                                      [route |-> "login", body |-> body, user |-> user]]
                    /\ reply' = NoReply
        /\ UNCHANGED <<scoringVars, db, disk, clock, sessions, loggedOut>>

\* POST /api/auth/login from the resolved comparison to the response
LoginFinish ==
    \E c \in Clients :
        /\ pending[c] # NoPending
        /\ pending[c].route = "login"
        /\ request' = Req(sessions[c], pending[c].body)
        /\ LET body == pending[c].body
               user == pending[c].user
               valid == Compare(body.password, StoredPassword(user))
           IN  /\ sessions' = [sessions EXCEPT ![c] = SessionAfterLogin(@, user, valid)]
               /\ loggedOut' = [loggedOut EXCEPT ![c] = IF valid THEN FALSE ELSE @]
               /\ reply' = IF valid
                           THEN [Status("POST /api/auth/login", c, 200) EXCEPT
                                    !.user = WithoutPassword(user)]
                           ELSE Status("POST /api/auth/login", c, 401)
        /\ pending' = [pending EXCEPT ![c] = NoPending]
        /\ UNCHANGED <<scoringVars, db, disk, clock>>

\* POST /api/auth/logout: destroy reports an error, with the session removed
\* or not, or removes the session
Logout ==
    \E c \in Clients, err \in BOOLEAN :
        /\ request' = Req(sessions[c], <<>>)
        /\ IF err
           THEN /\ reply' = Status("POST /api/auth/logout", c, 500)
                /\ \E left \in {sessions[c], NoSession} :
                       sessions' = [sessions EXCEPT ![c] = left]
                /\ loggedOut' = loggedOut
           ELSE /\ reply' = Status("POST /api/auth/logout", c, 200)
                /\ sessions' = [sessions EXCEPT ![c] = SessionAfterLogout(@)]
                /\ loggedOut' = [loggedOut EXCEPT ![c] = TRUE]
        /\ UNCHANGED <<scoringVars, db, disk, clock, pending>>

\* GET /api/auth/check; a session whose user is gone is destroyed
AuthCheck ==
    \E c \in Clients :
        /\ request' = Req(sessions[c], <<>>)
        /\ reply' = AuthCheckReply(db, disk, c, sessions[c])
        /\ sessions' = IF ~Anonymous(sessions[c])
                          /\ findUserById(db, disk, sessions[c].userId) = NoUser
                       THEN [sessions EXCEPT ![c] = NoSession]
                       ELSE sessions
        /\ UNCHANGED <<scoringVars, db, disk, clock, pending, loggedOut>>

\* GET /api/auth/profile
Profile ==
    \E c \in Clients :
        /\ request' = Req(sessions[c], <<>>)
        /\ reply' = ProfileReply(db, disk, c, sessions[c])
        /\ UNCHANGED <<scoringVars, db, disk, clock, sessions, pending, loggedOut>>

NextSite ==
    \/ SignupBegin
    \/ SignupFinish
    \/ LoginBegin
    \/ LoginFinish
    \/ Logout
    \/ AuthCheck
    \/ Profile
    \/ Tick

SpecSite == InitSite /\ [][NextSite]_vars

\* ------------------------------------------------- the orders routes
\* Two users, each signed in on one client; the clients place and list
\* orders, ask for their history and log out.

AnnUser ==
    [id |-> 2, name |-> "Ann", email |-> "ann@x.com",
     password |-> Hash("secret1"), createdAt |-> 2]

InitOrders ==
    /\ TESLA_SPECS = <<>>
    /\ preferences = NoPreferences
    /\ called = FALSE
    /\ threw = FALSE
    /\ running = <<>>
    /\ reasonsAll = <<>>
    /\ scores = <<>>
    /\ recommendations = <<>>
    /\ first = NoFirst
    /\ request = NoRequest
    /\ response = NoResponse
    /\ db = [EmptyDb EXCEPT !.users = <<LegacyUser, AnnUser>>]
    /\ disk = "ok"
    /\ clock = 2
    /\ sessions = [c \in Clients |->
                      IF c = "c1" THEN SessionOf(LegacyUser) ELSE SessionOf(AnnUser)]
    /\ pending = [c \in Clients |-> NoPending]
    /\ loggedOut = [c \in Clients |-> FALSE]
    /\ reply = NoReply

\* POST /api/orders
PostOrder ==
    \E c \in Clients, body \in OrderBodies :
        /\ request' = Req(sessions[c], body)
        /\ reply' = Status("POST /api/orders", c, PostOrderStatus(sessions[c], body))
        /\ IF PostOrderStatus(sessions[c], body) = 201
           THEN /\ Len(db.orders) < MaxOrders
                /\ db' = createOrder(db, disk, OrderData(body, sessions[c]), clock)
           ELSE db' = db
        /\ UNCHANGED <<scoringVars, disk, clock, sessions, pending, loggedOut>>

\* GET /api/orders
GetOrders ==
    \E c \in Clients :
        /\ request' = Req(sessions[c], <<>>)
        /\ reply' = GetOrdersReply(db, disk, c, sessions[c])
        /\ UNCHANGED <<scoringVars, db, disk, clock, sessions, pending, loggedOut>>

\* GET /api/recommend/history
GetHistory ==
    \E c \in Clients :
        /\ request' = Req(sessions[c], <<>>)
        /\ reply' = HistoryReply(db, disk, c, sessions[c])
        /\ UNCHANGED <<scoringVars, db, disk, clock, sessions, pending, loggedOut>>

NextOrders ==
    \/ PostOrder
    \/ GetOrders
    \/ GetHistory
    \/ Logout
    \/ Tick

SpecOrders == InitOrders /\ [][NextOrders]_vars

\* ------------------------------------------------------------ properties

Rows == 1..Len(TESLA_SPECS)

\* what rule k (1..7) added to `score` for catalog row i
Delta(i, k) == running[i][k] - (IF k = 1 THEN 0 ELSE running[i][k - 1])

\* whether the array `reasons` of row i holds an entry that starts with `head`
HasReason(i, head) == \E k \in 1..Len(reasonsAll[i]) : reasonsAll[i][k][1] = head

Price(i) == TESLA_SPECS[i].BasePrice
MaxBudget == preferences.priceRange.max

\* C1: for every catalog price and every budget max the budget rule adds 30 when
\* price <= max (and 5 more when price < 0.8 * max), 15 when
\* max < price <= 1.15 * max, and -30 otherwise; so a price of exactly
\* 1.15 * max adds 15.
C1_BudgetRule ==
    called =>
        \A i \in Rows :
            Delta(i, 1) =
                IF Price(i) <= MaxBudget
                THEN 30 + (IF 5 * Price(i) < 4 * MaxBudget THEN 5 ELSE 0)
                ELSE IF 20 * Price(i) <= 23 * MaxBudget THEN 15 ELSE 0 - 30

\* the largest of the alternatives of a non-empty seating cell
EffectiveSeats(seating) ==
    CHOOSE m \in {seating[k] : k \in 1..Len(seating)} :
        \A k \in 1..Len(seating) : m >= seating[k]

\* C2: for every vehicle with a seating cell and every passenger count, the
\* effective seat count is the maximum of the alternatives; the seating rule
\* adds 15 when it is at least the passenger count, with a seating reason only
\* when both exceed 5, and otherwise subtracts 50 and pushes no reason.
C2_SeatingRule ==
    called =>
        \A i \in Rows :
            TESLA_SPECS[i].Seating # <<>> =>
                LET seats == EffectiveSeats(TESLA_SPECS[i].Seating)
                    fits == seats >= preferences.passengers
                IN  /\ Delta(i, 4) = IF fits THEN 15 ELSE 0 - 50
                    /\ HasReason(i, "Seats ")
                         <=> (fits /\ seats > 5 /\ preferences.passengers > 5)
                    /\ HasReason(i, "Seats ")
                         => <<"Seats ", ToString(seats), " people">>
                              \in {reasonsAll[i][k] : k \in 1..Len(reasonsAll[i])}

\* a "5/7" row asked for 7 passengers: the rule has added 15 with its reason
C2_Witness ==
    /\ called
    /\ \E i \in Rows :
        /\ TESLA_SPECS[i].Seating = <<5, 7>>
        /\ preferences.passengers = 7
        /\ Delta(i, 4) = 15
        /\ HasReason(i, "Seats ")
    /\ \E j \in Rows : Delta(j, 4) = 0 - 50

\* C3: for every range and daily distance the range rule adds 25 with a
\* range-coverage reason when range >= 2.5 * dailyDistance, 15 with no reason
\* when 1.5 * dailyDistance <= range < 2.5 * dailyDistance, and otherwise
\* subtracts 10 with no reason.
C3_RangeRule ==
    called =>
        \A i \in Rows :
            LET range == TESLA_SPECS[i].Range
                daily == preferences.dailyDistance
            IN  /\ Delta(i, 2) =
                       IF 10 * range >= 25 * daily THEN 25
                       ELSE IF 10 * range >= 15 * daily THEN 15 ELSE 0 - 10
                /\ HasReason(i, "Range (") <=> 10 * range >= 25 * daily

\* a row whose range is exactly 2.5 times the daily distance beside a row that got 15
C3_Witness ==
    /\ called
    /\ \E i \in Rows :
        /\ 2 * TESLA_SPECS[i].Range = 5 * preferences.dailyDistance
        /\ Delta(i, 2) = 25
    /\ \E j \in Rows : Delta(j, 2) = 15

\* C4: with priority Performance the rule adds 20 and a reason when the 0-60
\* time is below 3.5 s, 10 and no reason when it is at least 3.5 s and below
\* 4.5 s, 0 otherwise; with Efficiency it adds 20 and a reason when consumption
\* is below 260 Wh/mi, 0 otherwise; with Balanced it adds 0 and no reason.
C4_PriorityRule ==
    called =>
        \A i \in Rows :
            LET accel == TESLA_SPECS[i].Accel
                energy == TESLA_SPECS[i].Energy
                fast == preferences.priority = "Performance" /\ accel < 35
                frugal == preferences.priority = "Efficiency" /\ energy < 260
            IN  /\ Delta(i, 3) =
                       CASE preferences.priority = "Performance" ->
                                IF accel < 35 THEN 20
                                ELSE IF accel < 45 THEN 10 ELSE 0
                         [] preferences.priority = "Efficiency" ->
                                IF energy < 260 THEN 20 ELSE 0
                         [] preferences.priority = "Balanced" -> 0
                /\ HasReason(i, "Supercar acceleration: ") <=> fast
                /\ HasReason(i, "High efficiency: ") <=> frugal

\* Performance asked with a row at exactly 3.5 s (10) and one at 4.5 s (0)
C4_Witness ==
    /\ called
    /\ preferences.priority = "Performance"
    /\ \E i \in Rows : TESLA_SPECS[i].Accel = 35 /\ Delta(i, 3) = 10
    /\ \E i \in Rows : TESLA_SPECS[i].Accel = 45 /\ Delta(i, 3) = 0
    /\ \E i \in Rows : Delta(i, 3) = 20

\* C5: the final score of every returned candidate is max(0, running total of
\* the seven rules), so it is never negative in the output.
C5_Clamping ==
    called =>
        \A k \in 1..Len(recommendations) :
            LET total == running[recommendations[k].row][7]
            IN  /\ recommendations[k].score >= 0
                /\ recommendations[k].score = IF total > 0 THEN total ELSE 0

\* a returned candidate whose running total ended below 0, and one that passed
\* through a negative total on the way to a positive score
C5_Witness ==
    /\ called
    /\ \E k \in 1..Len(recommendations) :
        /\ running[recommendations[k].row][7] < 0
        /\ recommendations[k].score = 0
    /\ \E k \in 1..Len(recommendations) :
        /\ running[recommendations[k].row][1] < 0
        /\ recommendations[k].score > 0

\* position k of the returned list holds the candidate of this catalog row
RowAt(k) == recommendations[k].row
Returned == {RowAt(k) : k \in 1..Len(recommendations)}

\* C6: the returned list holds min(3, catalog size) candidates, each the
\* candidate of a different catalog row, with scores non-increasing along the
\* list, and no candidate left out has a higher score than a returned one.
C6_TopThreeSorted ==
    called =>
        /\ Len(recommendations) = Min(3, Len(TESLA_SPECS))
        /\ \A k \in 1..Len(recommendations) :
               RowAt(k) \in Rows /\ recommendations[k] = scores[RowAt(k)]
        /\ \A j, k \in 1..Len(recommendations) : j # k => RowAt(j) # RowAt(k)
        /\ \A j, k \in 1..Len(recommendations) :
               j < k => recommendations[j].score >= recommendations[k].score
        /\ \A i \in Rows \ Returned :
               \A k \in 1..Len(recommendations) :
                   scores[i].score <= recommendations[k].score

\* four rows, the first one scored lowest and left out, the last one returned first
C6_Witness ==
    /\ called
    /\ Len(TESLA_SPECS) = 4
    /\ 1 \notin Returned
    /\ RowAt(1) = 4
    /\ scores[1].score < recommendations[3].score
    /\ recommendations[1].score > recommendations[2].score

\* C7: of two catalog rows with equal scores the earlier one is returned first,
\* and at the cut after three it is the earlier one that is kept.
C7_RankingStable ==
    called =>
        /\ \A j, k \in 1..Len(recommendations) :
               (j < k /\ recommendations[j].score = recommendations[k].score)
                   => RowAt(j) < RowAt(k)
        /\ \A i \in Rows \ Returned :
               \A k \in 1..Len(recommendations) :
                   scores[i].score = recommendations[k].score => RowAt(k) < i

\* a tie with a positive score across the cut: rows 3 and 4 score the same, row 3
\* is returned last and row 4 is left out, while a later row overtook an earlier
C7_Witness ==
    /\ called
    /\ Len(TESLA_SPECS) = 4
    /\ scores[3].score = scores[4].score
    /\ scores[3].score > 0
    /\ RowAt(3) = 3
    /\ 4 \notin Returned
    /\ RowAt(1) = 2

\* rows i and j are the same vehicle but for the seating cell
SameButSeating(i, j) ==
    /\ TESLA_SPECS[i].Seating # TESLA_SPECS[j].Seating
    /\ [TESLA_SPECS[i] EXCEPT !.Seating = <<>>] = [TESLA_SPECS[j] EXCEPT !.Seating = <<>>]

\* row i has too few seats for the passengers and row j, the same vehicle
\* otherwise, has enough
SeatingPair(i, j) ==
    /\ SameButSeating(i, j)
    /\ MaxSeats(TESLA_SPECS[i].Seating) < preferences.passengers
    /\ MaxSeats(TESLA_SPECS[j].Seating) >= preferences.passengers

\* C8 as stated: a vehicle with too few seats always has a strictly lower total
\* score than an otherwise-identical vehicle that meets the passenger count.
C8_Original ==
    called =>
        \A i, j \in Rows :
            SeatingPair(i, j) => scores[i].score < scores[j].score

\* C8 as amended: the vehicle with too few seats has a strictly lower running
\* total (before clamping), and a final score that is never higher and is
\* strictly lower whenever the other vehicle's final score is above 0.
C8_SeatingDominance ==
    called =>
        \A i, j \in Rows :
            SeatingPair(i, j) =>
                /\ running[i][7] < running[j][7]
                /\ scores[i].score <= scores[j].score
                /\ scores[j].score > 0 => scores[i].score < scores[j].score

\* such a pair where the vehicle with too few seats still ends above 0, having
\* earned more than 50 from the other rules, and is below the other one
C8_Witness ==
    /\ called
    /\ \E i, j \in Rows :
        /\ SeatingPair(i, j)
        /\ scores[i].score > 0
        /\ scores[i].score < scores[j].score

\* row a is ranked ahead of row b: a is returned before b, or returned when b is not
RankedAhead(a, b) ==
    \/ \E j, k \in 1..Len(recommendations) : j < k /\ RowAt(j) = a /\ RowAt(k) = b
    \/ a \in Returned /\ b \in Rows \ Returned

\* C9 as stated: a vehicle whose unclamped running total is lower than another's
\* is never ranked ahead of it.
C9_Original ==
    called =>
        \A a, b \in Rows :
            running[a][7] < running[b][7] => ~RankedAhead(a, b)

\* C9 as amended: a vehicle whose unclamped running total is lower than another's
\* is never ranked ahead of it, unless neither total is above 0 (both scores are
\* then clamped to 0 before the sort and catalog order decides).
C9_PenalisedRankedBehind ==
    called =>
        \A a, b \in Rows :
            (running[a][7] < running[b][7] /\ running[b][7] > 0)
                => ~RankedAhead(a, b)

\* an earlier row with a negative total (seating and budget penalties) is ranked
\* behind a later row with a positive one, and is left out
C9_Witness ==
    /\ called
    /\ Len(TESLA_SPECS) = 4
    /\ running[1][7] < 0
    /\ running[1][1] < 0
    /\ running[1][4] < running[1][3]
    /\ 1 \notin Returned
    /\ \A k \in 1..3 : running[RowAt(k)][7] > 0

\* the rule (1..7) that pushes a reason starting with `head`
RuleOf(head) ==
    CASE head = "Fits budget: $" -> 1
      [] head = "Range (" -> 2
      [] head = "Supercar acceleration: " -> 3
      [] head = "High efficiency: " -> 3
      [] head = "Seats " -> 4
      [] head = "Matches " -> 5
      [] head = "Towing: " -> 6
      [] head = "Full Self Driving Hardware Ready" -> 7

\* C10: the reasons of every returned candidate are at most 3, and they are the
\* first 3 (or all, if fewer) of the reasons pushed, which stand in rule order:
\* budget, range, priority, seating, body style, towing, FSD.
C10_ReasonCap ==
    called =>
        \A k \in 1..Len(recommendations) :
            LET all == reasonsAll[RowAt(k)]
                kept == recommendations[k].reasons
            IN  /\ Len(kept) <= 3
                /\ Len(kept) = Min(3, Len(all))
                /\ \A n \in 1..Len(kept) : kept[n] = all[n]
                /\ \A m, n \in 1..Len(all) :
                       m < n => RuleOf(all[m][1]) < RuleOf(all[n][1])

\* a returned candidate for which five rules pushed a reason, and one for which
\* the budget reason came first of four
C10_Witness ==
    /\ called
    /\ \E k \in 1..Len(recommendations) :
        /\ Len(reasonsAll[RowAt(k)]) = 5
        /\ Len(recommendations[k].reasons) = 3
    /\ \E k \in 1..Len(recommendations) :
        /\ Len(reasonsAll[RowAt(k)]) = 4
        /\ recommendations[k].reasons[1][1] = "Fits budget: $"

\* the entries of the array `reasons` of row i
ReasonSet(i) == {reasonsAll[i][k] : k \in 1..Len(reasonsAll[i])}

\* C18: the towing rule adds 15 and pushes a reason citing the capacity figure
\* exactly when towing is asked for and the row's towing capacity is not "NA";
\* otherwise it adds 0 and pushes no reason.
C18_TowingRule ==
    called =>
        \A i \in Rows :
            LET figure == TESLA_SPECS[i].Towing
                applies == preferences.towing = TRUE /\ figure # "NA"
            IN  /\ Delta(i, 6) = IF applies THEN 15 ELSE 0
                /\ HasReason(i, "Towing: ") <=> applies
                /\ applies => <<"Towing: ", figure, " lbs">> \in ReasonSet(i)

\* towing asked for, with a row that can tow (15) beside a row that cannot (0)
C18_Witness ==
    /\ called
    /\ preferences.towing = TRUE
    /\ \E i \in Rows :
        /\ TESLA_SPECS[i].Towing = "3500"
        /\ Delta(i, 6) = 15
        /\ <<"Towing: ", "3500", " lbs">> \in ReasonSet(i)
    /\ \E j \in Rows : TESLA_SPECS[j].Towing = "NA" /\ Delta(j, 6) = 0

\* C19: the body style rule adds 10 and pushes a reason exactly when the style
\* preference is not "Any" and equals the row's body type; otherwise it adds 0
\* and pushes no reason.
C19_StyleRule ==
    called =>
        \A i \in Rows :
            LET body == TESLA_SPECS[i].BodyType
                matches == preferences.style # "Any" /\ preferences.style = body
            IN  /\ Delta(i, 5) = IF matches THEN 10 ELSE 0
                /\ HasReason(i, "Matches ") <=> matches
                /\ matches => <<"Matches ", body, " style">> \in ReasonSet(i)

\* style SUV asked for, with an SUV row (10) beside a sedan row (0)
C19_Witness ==
    /\ called
    /\ preferences.style = "SUV"
    /\ \E i \in Rows : TESLA_SPECS[i].BodyType = "SUV" /\ Delta(i, 5) = 10
    /\ \E j \in Rows : TESLA_SPECS[j].BodyType = "Sedan" /\ Delta(j, 5) = 0

\* C20: the FSD rule adds 10 and pushes the fixed reason exactly when fsd is
\* asked for and the row has Full Self Driving available; otherwise it adds 0
\* and pushes no reason.
C20_FsdRule ==
    called =>
        \A i \in Rows :
            LET applies == preferences.fsd = TRUE /\ TESLA_SPECS[i].FSD = "Yes"
            IN  /\ Delta(i, 7) = IF applies THEN 10 ELSE 0
                /\ <<"Full Self Driving Hardware Ready">> \in ReasonSet(i) <=> applies

\* fsd asked for, with a row that has it (10) beside a row that has not (0)
C20_Witness ==
    /\ called
    /\ preferences.fsd = TRUE
    /\ \E i \in Rows : TESLA_SPECS[i].FSD = "Yes" /\ Delta(i, 7) = 10
    /\ \E j \in Rows : TESLA_SPECS[j].FSD = "No" /\ Delta(j, 7) = 0

\* ------------------------------------------------------- repeated calls

\* the latest call computed and returned what the first call did: the same
\* candidates in the same order, with the same scores, reasons and details
SameAsFirst ==
    /\ threw = first.threw
    /\ scores = first.scores
    /\ recommendations = first.result

\* C11: a call with the preferences of the first call returns what the first
\* call returned (same candidates, same order, same scores, same reasons),
\* whatever calls were made in between.
C11_Deterministic ==
    (called /\ preferences = first.prefs) => SameAsFirst

\* the first preferences again after a call with other preferences, on a
\* catalog whose two rows tie
C11_Witness ==
    /\ called
    /\ first.others
    /\ preferences = first.prefs
    /\ Len(recommendations) = 2
    /\ recommendations[1].score = recommendations[2].score

\* C12: no call changes the catalog: its rows, their fields, their order and
\* their number stay as they were.
C12_CatalogUnchanged == [][TESLA_SPECS' = TESLA_SPECS]_vars

\* two rows scored and ranked by calls with different preferences, the later
\* one ranking them against their catalog order
C12_Witness ==
    /\ called
    /\ first.others
    /\ Len(TESLA_SPECS) = 2
    /\ Len(recommendations) = 2
    /\ RowAt(1) = 2

\* p leaves out priority, towing and fsd, and q is p with priority
\* 'Balanced', towing false and fsd false
DefaultsPair(p, q) ==
    /\ DOMAIN p \cap OptionalKeys = {}
    /\ DOMAIN q = DOMAIN p \cup OptionalKeys
    /\ Without(q, OptionalKeys) = p
    /\ q.priority = "Balanced" /\ q.towing = FALSE /\ q.fsd = FALSE

\* C16: preferences that leave out priority, towing and fsd give the result
\* of the same preferences with priority 'Balanced', towing false, fsd false.
C16_Defaults ==
    (called /\ (DefaultsPair(first.prefs, preferences)
                \/ DefaultsPair(preferences, first.prefs)))
        => SameAsFirst

\* a call without the three keys and a call with the defaults spelled out,
\* on a catalog with a row quicker than 3.5 s and a row that can tow
C16_Witness ==
    /\ called
    /\ DefaultsPair(first.prefs, preferences)
    /\ \E i \in Rows : TESLA_SPECS[i].Accel < 35
    /\ \E i \in Rows : TESLA_SPECS[i].Towing # "NA"
    /\ Len(recommendations) = 2
    /\ Len(first.result) = 2

\* p and q differ, and only in cityHighwayRatio or colorPreference
InertPair(p, q) ==
    /\ p # q
    /\ Without(p, InertKeys) = Without(q, InertKeys)

\* C17: preferences that differ only in cityHighwayRatio or colorPreference
\* give the same result.
C17_InertFields ==
    (called /\ InertPair(first.prefs, preferences)) => SameAsFirst

\* a call with cityHighwayRatio and a call without it, on a catalog with a
\* row whose range the daily distance puts on the edge of the 2.5x bonus
C17_Witness ==
    /\ called
    /\ InertPair(first.prefs, preferences)
    /\ Has(first.prefs, "cityHighwayRatio") # Has(preferences, "cityHighwayRatio")
    /\ \E i \in Rows : 2 * TESLA_SPECS[i].Range = 5 * preferences.dailyDistance
    /\ Len(recommendations) > 0

\* ------------------------------------------------------- the route

Answered == response.status # 0
Submitted == request.body.preferences

\* a required field is absent from the submitted preferences
MissingRequired(p) ==
    \/ ~Has(p, "priceRange")
    \/ ~Has(p.priceRange, "max")
    \/ ~Has(p, "dailyDistance")
    \/ ~Has(p, "passengers")
    \/ ~Has(p, "style")

\* C13: a request whose preferences lack priceRange.max, dailyDistance,
\* passengers or style is rejected as a client error and no recommendations
\* are computed for it.
C13_MissingFieldRejected ==
    (Answered /\ Has(request.body, "preferences") /\ MissingRequired(Submitted))
        => /\ response.status \in 400..499
           /\ ~called
           /\ response.recommendations = <<>>

\* whether a numeric column of the row did not parse
Malformed(car) == car.BasePrice = NaN \/ car.Range = NaN \/ car.Accel = NaN

\* the catalog without its malformed rows
WellFormedRows(catalog) == SelectSeq(catalog, LAMBDA car : ~Malformed(car))

\* a candidate as the client sees it
Visible(candidate) == Without(candidate, {"row"})

\* C14: no malformed row is among the recommendations, and the
\* recommendations are those of the catalog without its malformed rows.
C14_MalformedSkipped ==
    (called /\ ~threw) =>
        /\ \A k \in 1..Len(recommendations) : ~Malformed(TESLA_SPECS[RowAt(k)])
        /\ LET expected == TopThree(SortByScore(
                               Mapped(WellFormedRows(TESLA_SPECS), preferences)))
           IN  /\ Len(recommendations) = Len(expected)
               /\ \A k \in 1..Len(expected) :
                      Visible(recommendations[k]) = Visible(expected[k])

\* C15: with an empty catalog a request that carries preferences is answered
\* 200 with success true and an empty list of recommendations.
C15_EmptyCatalog ==
    (Answered /\ Has(request.body, "preferences") /\ Len(TESLA_SPECS) = 0)
        => /\ response.status = 200
           /\ response.success = TRUE
           /\ response.recommendations = <<>>

\* an answered request on an empty catalog whose preferences have no
\* priceRange, the object the first row's callback would fail on
C15_Witness ==
    /\ Answered
    /\ Len(TESLA_SPECS) = 0
    /\ Has(request.body, "preferences")
    /\ ~Has(Submitted, "priceRange")
    /\ response.status = 200

\* ------------------------------------------------------- the over-budget note

\* C21: a candidate carries the over-budget note only when its price is above
\* the ceiling and at most 1.15 times the ceiling, and then the budget rule
\* pushed no reason; a price within the ceiling or beyond the tolerance gets
\* no note.
C21_OverBudgetNote ==
    called =>
        \A i \in Rows :
            LET note == scores[i].details
                within == Price(i) <= MaxBudget
                beyond == 20 * Price(i) > 23 * MaxBudget
            IN  /\ note # <<>> =>
                       /\ ~within /\ ~beyond
                       /\ note = << <<"Slightly over budget ($", ToString(Price(i)), ")">> >>
                       /\ ~HasReason(i, "Fits budget: $")
                /\ (within \/ beyond) => note = <<>>

\* a row with the note, at exactly 1.15 times the ceiling, beside a row one
\* dollar beyond the tolerance without it
C21_Witness ==
    /\ called
    /\ \E i \in Rows : /\ 20 * Price(i) = 23 * MaxBudget
                        /\ scores[i].details # <<>>
                        /\ Delta(i, 1) = 15
    /\ \E i \in Rows : /\ 20 * (Price(i) - 1) = 23 * MaxBudget
                        /\ scores[i].details = <<>>

\* ------------------------------------------------------- worked example

\* C22: for the catalog holding only the Model 3 Standard of the example and
\* the preferences of the example, the result is that one vehicle with score
\* 70 = 30 + 25 + 0 + 15 + 0 (+ 0 + 0) and exactly two reasons, the budget
\* reason and then the range reason.
C22_WorkedExample ==
    (called /\ TESLA_SPECS = <<ExampleCar>> /\ preferences = ExamplePreferences)
        => /\ ~threw
           /\ running[1] = <<30, 55, 55, 70, 70, 70, 70>>
           /\ Len(recommendations) = 1
           /\ recommendations[1].name = <<"Model 3", "Standard">>
           /\ recommendations[1].score = 70
           /\ recommendations[1].reasons =
                  << <<"Fits budget: $", "38990">>,
                     <<"Range (", "272", "mi) covers daily drive">> >>
           /\ recommendations[1].details = <<>>

\* the example evaluated after calls with other preferences
C22_Witness ==
    /\ called
    /\ first.others
    /\ TESLA_SPECS = <<ExampleCar>>
    /\ preferences = ExamplePreferences
    /\ Len(recommendations) = 1

\* ------------------------------------------------------- the database file

\* every entry of the old list is in the same place in the new list
Kept(old, new) ==
    /\ Len(new) >= Len(old)
    /\ \A k \in 1..Len(old) : new[k] = old[k]

\* C28: a call of createUser, createOrder, saveRecommendation or
\* trackAnalytics keeps every stored user, order and recommendation, also
\* when readDb falls back to the empty database before the write.
C28_StorePreserved ==
    [][ /\ Kept(db.users, db'.users)
        /\ Kept(db.orders, db'.orders)
        /\ Kept(db.recommendations, db'.recommendations) ]_vars

\* ------------------------------------------------------- the auth routes

\* the latest step answered this route to this client with this status
Replies(route, c, code) ==
    /\ reply'.route = route
    /\ reply'.client = c
    /\ reply'.status = code

\* C23: the user store never holds two users whose emails are equal after
\* lower-casing and trimming, whatever the interleaving of the signups.
C23_EmailsUnique ==
    \A i \in 1..Len(db.users) : \A j \in 1..Len(db.users) :
        i # j => NormalizeEmail(db.users[i].email) # NormalizeEmail(db.users[j].email)

C26_LoginSession ==
    [][\A c \in Clients :
          (reply'.route = "POST /api/auth/login" /\ reply'.client = c)
          => LET body == request'.body
                 user == findUserByEmail(db, disk, body.email)
             IN  /\ reply'.status \in {200, 400, 401, 404, 500}
                 /\ reply'.status # 200 => sessions'[c] = sessions[c]
                 /\ sessions'[c] # sessions[c] => reply'.status = 200
                 /\ reply'.status = 200
                    => /\ user # NoUser
                       /\ StoredPassword(user) = Hash(body.password)
                       /\ sessions'[c].userId = user.id]_vars

\* a client signed in as one user sent a wrong password for another and
\* was answered 401, its session still that of the first user
C26_Witness ==
    /\ reply.route = "POST /api/auth/login"
    /\ reply.status = 401
    /\ request.body.email = "ann@x.com"
    /\ ~Anonymous(sessions[reply.client])
    /\ sessions[reply.client].userId = LegacyUser.id
    /\ sessions[reply.client].userEmail = LegacyUser.email

\* C27: no response of signup, login, auth check or profile carries the
\* stored hash of the user, under password or under passwordHash.
C27_NoHashInResponse ==
    /\ ~Has(reply.user, "password")
    /\ ~Has(reply.user, "passwordHash")

C24_OrdersFromSession ==
    [][/\ db'.orders # db.orders
          => /\ reply'.route = "POST /api/orders"
             /\ reply'.status = 201
             /\ Has(sessions[reply'.client], "userId")
             /\ Len(db'.orders) = Len(db.orders) + 1
             /\ Kept(db.orders, db'.orders)
             /\ db'.orders[Len(db'.orders)].userId = sessions[reply'.client].userId
       /\ reply'.route = "POST /api/orders"
          => /\ ~Has(request'.session, "userId") => reply'.status = 401
             /\ (/\ Has(request'.session, "userId")
                 /\ \/ ~Has(request'.body, "vehicleName")
                    \/ ~Has(request'.body, "totalPrice"))
                => reply'.status = 400
             /\ reply'.status \in {400, 401} => db'.orders = db.orders]_vars

\* an order whose body named user 1 was placed on the session of user 2 and
\* is stored under user 2
C24_Witness ==
    /\ reply.route = "POST /api/orders"
    /\ reply.status = 201
    /\ Has(request.body, "userId")
    /\ request.body.userId = LegacyUser.id
    /\ request.session.userId = AnnUser.id
    /\ db.orders # <<>>
    /\ db.orders[Len(db.orders)].userId = AnnUser.id
    /\ db.orders[Len(db.orders)].vehicleName = "Model Y"

\* the two lists hold the same entries, each as many times
SameEntries(a, b) ==
    /\ Len(a) = Len(b)
    /\ \A k \in 1..Len(a) :
           Cardinality({i \in 1..Len(a) : a[i] = a[k]})
               = Cardinality({i \in 1..Len(b) : b[i] = a[k]})

====
